---- MODULE Spec2Model ----
(***************************************************************************)
(* SSEChannel (src/src/services/eventStreamManager/ssePubsub.ts): the      *)
(* connection registry, the message history with replay on subscribe, the  *)
(* event-name filter, the keepalive timer and the channel lifecycle.       *)
(*                                                                         *)
(* JavaScript values are modelled as records: an optional string is        *)
(* [def, v] (def = FALSE is undefined), a publish payload is [t, v] with t *)
(* the typeof tag.  A response stream is modelled by what the channel can  *)
(* observe and do to it: whether it is open, whether end() was called on   *)
(* it (res.finished), and whether its 'close' event was delivered.  What a *)
(* call writes and returns is kept in `last`.                              *)
(***************************************************************************)
EXTENDS Integers, Sequences, FiniteSets, TLC

VARIABLES
    options,    \* this.options
    nextID,     \* this.nextID
    clients,    \* this.clients, as the set of connection names
    messages,   \* this.messages
    active,     \* this.active
    pingTimer,  \* this.pingTimer is armed
    conn,       \* per connection: filter, response stream, max-duration timer
    last        \* the last call made on the channel, with its result

vars == <<options, nextID, clients, messages, active, pingTimer, conn, last>>

-----------------------------------------------------------------------------
(* Bounds of the model *)

MaxPublish == 3        \* ids assigned per run

Conns == {1, 2}    \* the connections subscribe can create, in this order

-----------------------------------------------------------------------------
(* JavaScript values *)

Undefined == [def |-> FALSE, v |-> ""]
Str(s) == [def |-> TRUE, v |-> s]

NoData == [t |-> "undefined", v |-> ""]
Text(s) == [t |-> "string", v |-> s]
Zero == [t |-> "number", v |-> "0"]

\* !data is false
DataTruthy(data) ==
    CASE data.t = "undefined" -> FALSE
      [] data.t = "string" -> data.v # ""
      [] data.t = "number" -> data.v # "0"
      [] OTHER -> TRUE

\* !eventName is false
NameTruthy(eventName) == eventName.def /\ eventName.v # ""

NoId == 0   \* publish returned undefined: `let id` was never assigned

NaN == [nan |-> TRUE, n |-> 0]
Num(n) == [nan |-> FALSE, n |-> n]

-----------------------------------------------------------------------------
(* Event filters.  A pattern is a literal string or a RegExp; a RegExp is  *)
(* given by its source, and RegExpTest lists what the ones used here match *)

Lit(s) == [re |-> FALSE, s |-> s]
Re(s) == [re |-> TRUE, s |-> s]

RegExpTest(src, name) ==
    CASE src = "^b" -> name \in {"bar"}
      [] OTHER -> FALSE

NoEvents == [def |-> FALSE, list |-> <<>>]   \* subscribe(req, res) without events
Events(list) == [def |-> TRUE, list |-> list]

\* a match that lets every name through
hasEventMatchAny(subscriptionList, eventName) == TRUE

\* hasEventMatch: !subscriptionList is false for every array, the empty one too
hasEventMatch(subscriptionList, eventName) ==
    \/ ~subscriptionList.def
    \/ \E i \in 1..Len(subscriptionList.list) :
          LET pat == subscriptionList.list[i]
          IN  IF pat.re THEN RegExpTest(pat.s, eventName) ELSE pat.s = eventName

-----------------------------------------------------------------------------
(* Rendering of a message block (payloads here are single lines) *)

JsonStringify(data) == Text(data.v)

renderData(data) ==
    LET d == IF data.t = "object" THEN JsonStringify(data) ELSE data
    IN  IF DataTruthy(d) THEN "data: " \o d.v ELSE ""

renderOutput(id, data, eventName) ==
    "id: " \o ToString(id) \o " \n"
    \o (IF NameTruthy(eventName) THEN "event: " \o eventName.v \o "\n" ELSE "")
    \o (IF renderData(data) # "" THEN renderData(data) ELSE "data: ")
    \o "\n\n"

PingOutput == "data: \n\n"

-----------------------------------------------------------------------------
(* Response streams *)

\* res.finished: end() has been called on the response
Finished(cn, c) == cn[c].finished

\* a write reaches the client only while the stream is open and not ended
Writable(cn, c) == cn[c].st = "open" /\ ~Finished(cn, c)

\* c.res.end(): ends the stream; on a stream already ended it does nothing.
\* Nothing is written to an ended stream, and what was written last to it is
\* no longer kept
resEnd(cn, c) == [cn EXCEPT ![c].finished = TRUE, ![c].lastId = NoId]

\* a connection no subscribe has created yet; lastId is the id of the
\* message block passed last to write on its stream, NoId when none was
NoConn == [st |-> "none", events |-> NoEvents, timer |-> FALSE,
           finished |-> FALSE, lastId |-> NoId]

-----------------------------------------------------------------------------
(* The Last-Event-ID header: a string is the sequence of its characters *)

Chars(s) == [def |-> TRUE, v |-> s]
NoHeader == [def |-> FALSE, v |-> <<>>]

\* req.headers["last-event-id"] is truthy
HeaderTruthy(h) == h.def /\ h.v # <<>>

DigitValue(ch) ==
    CASE ch = "0" -> 0 [] ch = "1" -> 1 [] ch = "2" -> 2 [] ch = "3" -> 3
      [] ch = "4" -> 4 [] ch = "5" -> 5 [] ch = "6" -> 6 [] ch = "7" -> 7
      [] ch = "8" -> 8 [] ch = "9" -> 9 [] OTHER -> 0 - 1

IsDigit(ch) == DigitValue(ch) >= 0

RECURSIVE skipSpace(_)
skipSpace(s) == IF s # <<>> /\ Head(s) = " " THEN skipSpace(Tail(s)) ELSE s

RECURSIVE leadingDigits(_, _)
leadingDigits(s, acc) ==
    IF s # <<>> /\ IsDigit(Head(s))
    THEN leadingDigits(Tail(s), 10 * acc + DigitValue(Head(s)))
    ELSE acc

\* Number.parseInt(s, 10)
parseInt(s) ==
    LET t == skipSpace(s)
        signed == t # <<>> /\ Head(t) \in {"+", "-"}
        u == IF signed THEN Tail(t) ELSE t
    IN  IF u = <<>> \/ ~IsDigit(Head(u)) THEN NaN
        ELSE IF signed /\ Head(t) = "-" THEN Num(0 - leadingDigits(u, 0))
        ELSE Num(leadingDigits(u, 0))

\* Array.prototype.slice(start): a negative start counts from the end
slice(seq, start) ==
    LET from == IF start < 0
                THEN (IF Len(seq) + start > 0 THEN Len(seq) + start ELSE 0)
                ELSE (IF start < Len(seq) THEN start ELSE Len(seq))
    IN  SubSeq(seq, from + 1, Len(seq))

-----------------------------------------------------------------------------
(* publish *)

\* a filter without the !eventName test: pings and unnamed messages go
\* through the filters too
recipientsByFilterOnly(cl, cn, eventName) ==
    SelectSeq(cl, LAMBDA c : \/ ~cn[c].events.def
                             \/ hasEventMatch(cn[c].events, eventName.v))

\* [...this.clients].filter(...): the clients a message named eventName is
\* written to, in the order they were added
recipients(cl, cn, eventName) ==
    SelectSeq(cl, LAMBDA c : \/ ~NameTruthy(eventName)
                             \/ ~cn[c].events.def
                             \/ hasEventMatch(cn[c].events, eventName.v))

\* a loop that a failing write ends: the connections up to the first one
\* whose stream is gone
RECURSIVE forEachWriteUntilFailure(_)
forEachWriteUntilFailure(cs) ==
    IF cs = <<>> THEN <<>>
    ELSE IF ~Writable(conn, Head(cs)) THEN <<Head(cs)>>
    ELSE <<Head(cs)>> \o forEachWriteUntilFailure(Tail(cs))

\* .forEach((c) => c.res.write(output)): the connections write is called
\* on, in order.  A write to a stream that is gone fails without throwing
\* (the stream reports it through its 'error' event), so the loop goes on
forEachWrite(cs) == cs

\* a trim that drops the newest entries instead of the oldest
trimNewest(msgs, historySize) ==
    IF Len(msgs) > historySize THEN SubSeq(msgs, 1, historySize) ELSE msgs

\* while (this.messages.length > historySize) this.messages.shift()
RECURSIVE trim(_, _)
trim(msgs, historySize) ==
    IF Len(msgs) > historySize THEN trim(Tail(msgs), historySize) ELSE msgs

\* last: the call or callback that ran last (op, on connection c), the
\* arguments of a publish (data, eventName), the Last-Event-ID header of the
\* request of a subscribe (hdr) and the lastID read from it, the id publish
\* returned (ret), the ids of the history entries in the body subscribe
\* wrote (replay), and the connections publish called write on, or close
\* called end on (wrote)
NoCall == [op |-> "new", c |-> 0, data |-> NoData, eventName |-> Undefined,
           hdr |-> NoHeader, lastID |-> NaN, ret |-> NoId, replay |-> <<>>,
           wrote |-> <<>>]

\* if (!data && !eventName)
isPing(data, eventName) == ~DataTruthy(data) /\ ~NameTruthy(eventName)

\* an increment that is lost
postIncrementLost(n) == n

\* this.nextID++ : the value nextID has after it
postIncrement(n) == n + 1

\* c.res.write(output) for each c of cs, output being the block of id
resWriteAll(cn, cs, id) ==
    [c \in Conns |->
        IF \E i \in 1..Len(cs) : cs[i] = c THEN [cn[c] EXCEPT !.lastId = id]
        ELSE cn[c]]

\* the body of publish(data, eventName); op tells a call from a keepalive tick
publish(op, data, eventName) ==
    IF isPing(data, eventName)
    THEN IF Len(clients) = 0
         THEN /\ UNCHANGED <<nextID, messages, conn>>
              /\ last' = [NoCall EXCEPT !.op = op, !.data = data,
                                        !.eventName = eventName]
         ELSE LET to == recipients(clients, conn, eventName)
              IN  /\ messages' = trim(messages, options.historySize)
                  /\ UNCHANGED <<nextID, conn>>
                  /\ last' = [NoCall EXCEPT !.op = op, !.data = data,
                                            !.eventName = eventName,
                                            !.wrote = forEachWrite(to)]
    ELSE LET id == nextID
             name == IF NameTruthy(eventName) THEN eventName.v ELSE ""
             m == [id |-> id, eventName |-> name,
                   output |-> renderOutput(id, data, eventName)]
             to == recipients(clients, conn, Str(name))
         IN  /\ nextID' = postIncrement(nextID)
             /\ messages' = trim(Append(messages, m), options.historySize)
             /\ conn' = resWriteAll(conn, forEachWrite(to), id)
             /\ last' = [NoCall EXCEPT !.op = op, !.data = data,
                                       !.eventName = eventName, !.ret = id,
                                       !.wrote = forEachWrite(to)]

\* what producers publish: the ping publish(), falsy payloads without a
\* name, an unnamed message, a named one, and a name without payload
PublishArgs ==
    { <<NoData, Undefined>>, <<Text(""), Undefined>>, <<Zero, Undefined>>,
      <<Text("a"), Undefined>>, <<Text("a"), Str("foo")>>,
      <<NoData, Str("bar")>> }

Publish(data, eventName) ==
    /\ ~isPing(data, eventName) => nextID < options.startId + MaxPublish
    /\ publish("publish", data, eventName)
    /\ UNCHANGED <<options, clients, active, pingTimer>>

\* the setInterval callback of the constructor: () => this.publish()
PingTick ==
    /\ pingTimer
    /\ publish("tick", NoData, Undefined)
    /\ UNCHANGED <<options, clients, active, pingTimer>>

-----------------------------------------------------------------------------
(* subscribe *)

\* this.clients.add(c)
setAdd(cl, c) ==
    IF \E i \in 1..Len(cl) : cl[i] = c THEN cl ELSE Append(cl, c)

\* a delete by position, clients.splice(clients.indexOf(c), 1): when c is
\* not there the position is -1 and the last element goes
setDeleteSplice(cl, c) ==
    IF \E i \in 1..Len(cl) : cl[i] = c
    THEN SelectSeq(cl, LAMBDA x : x # c)
    ELSE SubSeq(cl, 1, Len(cl) - 1)

\* this.clients.delete(c)
setDelete(cl, c) == SelectSeq(cl, LAMBDA x : x # c)

\* the ids of the messages in msgs
RECURSIVE idsOf(_)
idsOf(msgs) == IF msgs = <<>> THEN <<>> ELSE <<Head(msgs).id>> \o idsOf(Tail(msgs))

\* const lastID = req.headers["last-event-id"] ? parseInt(...) : NaN
lastIDOf(hdr) == IF HeaderTruthy(hdr) THEN parseInt(hdr.v) ELSE NaN

\* const rewind = !Number.isNaN(lastID) ? this.nextID - 1 - lastID : options.rewind
rewindOf(lastID, nxt, opts) ==
    IF ~lastID.nan THEN nxt - 1 - lastID.n ELSE opts.rewind

\* a replay that slices from rewind instead of from 0 - rewind
replayOfFromRewind(msgs, events, rewind) ==
    IF rewind # 0
    THEN slice(SelectSeq(msgs, LAMBDA m : IF events.def
                                           THEN hasEventMatch(events, m.eventName)
                                           ELSE TRUE),
               rewind)
    ELSE <<>>

RECURSIVE reverse(_)
reverse(seq) == IF seq = <<>> THEN <<>> ELSE Append(reverse(Tail(seq)), Head(seq))

\* a replay that appends the entries newest first
replayOfNewestFirst(msgs, events, rewind) ==
    IF rewind # 0
    THEN reverse(slice(SelectSeq(msgs, LAMBDA m : IF events.def
                                                   THEN hasEventMatch(events, m.eventName)
                                                   ELSE TRUE),
                       0 - rewind))
    ELSE <<>>

\* the messages appended to the body: if (rewind) messages.filter(..).slice(0 - rewind)
replayOf(msgs, events, rewind) ==
    IF rewind # 0
    THEN slice(SelectSeq(msgs, LAMBDA m : IF events.def
                                           THEN hasEventMatch(events, m.eventName)
                                           ELSE TRUE),
               0 - rewind)
    ELSE <<>>

Headers ==
    { NoHeader, Chars(<<>>), Chars(<<"a">>), Chars(<<"1">>), Chars(<<"2">>),
      Chars(<<"3">>), Chars(<<"9">>), Chars(<<"1", "x">>) }

Filters ==
    { NoEvents, Events(<<>>), Events(<<Lit("foo")>>), Events(<<Re("^b")>>) }

Subscribe(c, hdr, events) ==
    /\ conn[c].st = "none"
    /\ \A d \in Conns : d < c => conn[d].st # "none"
    /\ LET lastID == lastIDOf(hdr)
           rewind == rewindOf(lastID, nextID, options)
           replay == idsOf(replayOf(messages, events, rewind))
       IN  /\ conn' = [conn EXCEPT ![c] =
                         [NoConn EXCEPT !.st = "open", !.events = events,
                              !.timer = (options.maxStreamDuration # 0),
                              !.lastId = IF replay = <<>> THEN NoId
                                         ELSE replay[Len(replay)]]]
           /\ clients' = setAdd(clients, c)
           /\ last' = [NoCall EXCEPT !.op = "subscribe", !.c = c,
                                     !.hdr = hdr, !.lastID = lastID,
                                     !.replay = replay]
    /\ UNCHANGED <<options, nextID, messages, active, pingTimer>>

-----------------------------------------------------------------------------
(* unsubscribe, close, and the callbacks subscribe registers *)

\* an unsubscribe that ends the stream and leaves the connection registered
unsubscribeEndsOnly(op, c, cn) ==
    /\ conn' = resEnd(cn, c)
    /\ clients' = clients
    /\ last' = [NoCall EXCEPT !.op = op, !.c = c]

\* the body of unsubscribe(c): c.res.end(); this.clients.delete(c)
\* (op names the caller, cn is conn as the caller left it)
unsubscribe(op, c, cn) ==
    /\ conn' = resEnd(cn, c)
    /\ clients' = setDelete(clients, c)
    /\ last' = [NoCall EXCEPT !.op = op, !.c = c]

\* unsubscribe(c) called by whoever holds the connection subscribe returned
Unsubscribe(c) ==
    /\ conn[c].st # "none"
    /\ unsubscribe("unsubscribe", c, conn)
    /\ UNCHANGED <<options, nextID, messages, active, pingTimer>>

\* a loop that ends the first client only
forEachEndFirst(cs, cn) == IF cs = <<>> THEN cn ELSE resEnd(cn, Head(cs))

\* this.clients.forEach((c) => c.res.end())
RECURSIVE forEachEnd(_, _)
forEachEnd(cs, cn) ==
    IF cs = <<>> THEN cn ELSE forEachEnd(Tail(cs), resEnd(cn, Head(cs)))

\* a close() without clearInterval: the keepalive timer stays armed
CloseLeavesPingTimer ==
    /\ conn' = forEachEnd(clients, conn)
    /\ clients' = <<>>
    /\ messages' = <<>>
    /\ active' = FALSE
    /\ last' = [NoCall EXCEPT !.op = "close", !.wrote = clients]
    /\ UNCHANGED <<options, nextID, pingTimer>>

Close ==
    /\ conn' = forEachEnd(clients, conn)
    /\ clients' = <<>>
    /\ messages' = <<>>
    /\ pingTimer' = FALSE
    /\ active' = FALSE
    /\ last' = [NoCall EXCEPT !.op = "close", !.wrote = clients]
    /\ UNCHANGED <<options, nextID>>

\* getSubscriberCount()
getSubscriberCount == Len(clients)

\* a callback with the test inverted: if (c.res.finished) this.unsubscribe(c)
TimerFireInverted(c) ==
    /\ conn[c].timer
    /\ LET cn == [conn EXCEPT ![c].timer = FALSE]
       IN  IF Finished(conn, c)
           THEN unsubscribe("timer", c, cn)
           ELSE /\ conn' = cn
                /\ last' = [NoCall EXCEPT !.op = "timer", !.c = c]
                /\ UNCHANGED clients
    /\ UNCHANGED <<options, nextID, messages, active, pingTimer>>

\* the setTimeout callback of subscribe, after options.maxStreamDuration
TimerFire(c) ==
    /\ conn[c].timer
    /\ LET cn == [conn EXCEPT ![c].timer = FALSE]
       IN  IF ~Finished(conn, c)
           THEN unsubscribe("timer", c, cn)
           ELSE /\ conn' = cn
                /\ last' = [NoCall EXCEPT !.op = "timer", !.c = c]
                /\ UNCHANGED clients
    /\ UNCHANGED <<options, nextID, messages, active, pingTimer>>

\* the peer goes away or the stream fails: it is destroyed, and its
\* 'close' event is due
StreamAbort(c) ==
    /\ conn[c].st = "open"
    /\ conn' = [conn EXCEPT ![c].st = "aborted"]
    /\ last' = [NoCall EXCEPT !.op = "abort", !.c = c]
    /\ UNCHANGED <<options, nextID, clients, messages, active, pingTimer>>

\* the stream's 'close' event is due once it was ended or destroyed
CloseDue(c) ==
    \/ conn[c].st = "aborted"
    \/ conn[c].st = "open" /\ Finished(conn, c)

\* a 'close' listener that only logs, as the 'error' listener does
CloseHookLogsOnly(c) ==
    /\ CloseDue(c)
    /\ conn' = [conn EXCEPT ![c].st = "closed"]
    /\ last' = [NoCall EXCEPT !.op = "closeHook", !.c = c]
    /\ UNCHANGED <<options, nextID, clients, messages, active, pingTimer>>

\* c.res.on("close", () => this.unsubscribe(c))
CloseHook(c) ==
    /\ CloseDue(c)
    /\ unsubscribe("closeHook", c, [conn EXCEPT ![c].st = "closed"])
    /\ UNCHANGED <<options, nextID, messages, active, pingTimer>>

\* c.res.on("error", ...) and c.res.on("finish", ...) only log: they change
\* nothing of the channel and are no actions of the model

-----------------------------------------------------------------------------
(* The channel after its constructor *)

Options(pingInterval, maxStreamDuration, startId, historySize, rewind) ==
    [pingInterval |-> pingInterval, maxStreamDuration |-> maxStreamDuration,
     startId |-> startId, historySize |-> historySize, rewind |-> rewind]

\* the channels built: one without timers that keeps two messages, one with
\* both timers that keeps none (30000 is the default pingInterval)
OptionsSpace ==
    { Options(0, 0, 1, 2, 1),
      Options(30000, 60000, 2, 0, 0) }

Init ==
    /\ options \in OptionsSpace
    /\ nextID = options.startId
    /\ clients = <<>>
    /\ messages = <<>>
    /\ active = TRUE
    /\ pingTimer = (options.pingInterval # 0)
    /\ conn = [c \in Conns |-> NoConn]
    /\ last = NoCall

Next ==
    \/ \E a \in PublishArgs : Publish(a[1], a[2])
    \/ PingTick
    \/ \E c \in Conns, h \in Headers, f \in Filters : Subscribe(c, h, f)
    \/ \E c \in Conns : Unsubscribe(c)
    \/ Close
    \/ \E c \in Conns : TimerFire(c)
    \/ \E c \in Conns : StreamAbort(c)
    \/ \E c \in Conns : CloseHook(c)

Spec == Init /\ [][Next]_vars

\* the channel built with both timers, where the keepalive tick, the
\* max-duration timer and the close hook all run
FairInit == Init /\ options.pingInterval # 0 /\ options.maxStreamDuration # 0

\* the event loop delivers the 'close' event of a stream that was ended or
\* destroyed: a close hook that is due runs
FairSpec ==
    FairInit /\ [][Next]_vars /\ \A c \in Conns : WF_vars(CloseHook(c))

-----------------------------------------------------------------------------
(* Replay on subscribe *)

\* the history entries with an id above k that the filter of a new
\* connection lets through on replay
unseenMatching(msgs, events, k) ==
    SelectSeq(msgs, LAMBDA m : /\ m.id > k
                               /\ (events.def => hasEventMatch(events, m.eventName)))

\* C1: a subscribe carrying a numeric Last-Event-ID = k is replayed exactly
\* the history entries with id > k that match its filter, in history order
\* with their ids, and never an entry with id <= k.
C1_ReplayIsExactlyTheUnseen ==
    (last.op = "subscribe" /\ ~last.lastID.nan)
        => last.replay = idsOf(unseenMatching(messages, conn[last.c].events,
                                              last.lastID.n))

-----------------------------------------------------------------------------
(* History and ids *)

Min(a, b) == IF a < b THEN a ELSE b

HistoryBounded == Len(messages) <= options.historySize

\* the retained ids are the last ones assigned, oldest first
HistoryMostRecent ==
    \A i \in 1..Len(messages) : messages[i].id = nextID - Len(messages) + i - 1

HistoryIncreasing ==
    \A i, j \in 1..Len(messages) : i < j => messages[i].id < messages[j].id

\* a step of publish(), called or from the keepalive timer
PublishStep == last'.op \in {"publish", "tick"}

\* C2: after every publish the history holds at most historySize entries,
\* they are the most recently published ones (a publish that assigns an id
\* adds its entry as the newest and evicts only the oldest), their ids are
\* strictly increasing, and with historySize = 0 the history stays empty.
C2_HistoryKeepsTheMostRecent ==
    /\ [](/\ HistoryBounded
          /\ HistoryMostRecent
          /\ HistoryIncreasing
          /\ (options.historySize = 0 => messages = <<>>))
    /\ [][PublishStep
            => LET kept == Min(Len(messages) + 1, options.historySize)
               IN  IF last'.ret = NoId THEN messages' = messages
                   ELSE /\ Len(messages') = kept
                        /\ kept > 0 => messages'[kept].id = last'.ret
                        /\ \A i \in 1..(kept - 1) :
                              messages'[i] = messages[Len(messages) + 1 - kept + i]]_vars

\* a publish has evicted the oldest entry of a full history
C2_Witness ==
    /\ last.op = "publish"
    /\ last.ret = options.startId + 2
    /\ options.historySize = 2
    /\ idsOf(messages) = <<last.ret - 1, last.ret>>

-----------------------------------------------------------------------------
(* Fan-out *)

InSeq(x, seq) == \E i \in 1..Len(seq) : seq[i] = x

\* a filter entry matches a name: string equality, or the pattern matches
entryMatches(pat, name) ==
    IF pat.re THEN RegExpTest(pat.s, name) ELSE pat.s = name

someEntryMatches(events, name) ==
    \E i \in 1..Len(events.list) : entryMatches(events.list[i], name)

PublishDone == last.op \in {"publish", "tick"}

\* C4: on live fan-out a subscribed connection with a non-empty filter is
\* written a named message iff the name matches one of its filter entries,
\* and every subscribed connection is written every ping and every unnamed
\* message.
C4_FanOutFollowsTheFilter ==
    PublishDone
        => \A i \in 1..Len(clients) :
              LET c == clients[i]
                  named == NameTruthy(last.eventName)
              IN  /\ (named /\ conn[c].events.def /\ conn[c].events.list # <<>>)
                        => (InSeq(c, last.wrote)
                              <=> someEntryMatches(conn[c].events, last.eventName.v))
                  /\ ~named => InSeq(c, last.wrote)

\* "bar" was published to a subscriber of "foo" and to one of /^b/: only
\* the second was written
C4_Witness ==
    /\ last.op = "publish"
    /\ last.eventName = Str("bar")
    /\ clients = <<1, 2>>
    /\ conn[1].events = Events(<<Lit("foo")>>)
    /\ conn[2].events = Events(<<Re("^b")>>)
    /\ last.wrote = <<2>>

UnsubscribeStep(c) ==
    last'.op \in {"unsubscribe", "timer", "closeHook"} /\ last'.c = c

\* C5: unsubscribe(c) on a connection that was unsubscribed before, or whose
\* stream has closed, leaves subscribers, history and nextID as they were
\* after the first call, and no unsubscribe(c) ends the stream of, or
\* removes, another connection.
C5_UnsubscribeAgainIsANoOp ==
    [][\A c \in Conns :
          UnsubscribeStep(c)
              => /\ \A d \in Conns \ {c} :
                        /\ conn'[d] = conn[d]
                        /\ InSeq(d, clients') <=> InSeq(d, clients)
                 /\ messages' = messages
                 /\ nextID' = nextID
                 /\ (~InSeq(c, clients) /\ conn[c].finished)
                        => (clients' = clients /\ conn'[c].finished)
                 /\ ~InSeq(c, clients')]_vars

\* unsubscribe(1) was called after the stream of 1 had closed and its hook
\* had unsubscribed it; 2 is still subscribed, its stream open
C5_Witness ==
    /\ last.op = "unsubscribe"
    /\ last.c = 1
    /\ conn[1].st = "closed"
    /\ clients = <<2>>
    /\ Writable(conn, 2)

-----------------------------------------------------------------------------
(* close *)

\* C6: close() ends the stream of every subscriber, leaves subscribers and
\* history empty, cancels the keepalive timer and clears active, so that
\* getSubscriberCount() returns 0 next.
C6_CloseEndsEverything ==
    [][last'.op = "close"
          => /\ \A i \in 1..Len(clients) : Finished(conn', clients[i])
             /\ clients' = <<>>
             /\ messages' = <<>>
             /\ ~pingTimer'
             /\ ~active'
             /\ getSubscriberCount' = 0]_vars

\* close() ran on a channel with two subscribers and an armed keepalive
C6_Witness ==
    /\ last.op = "close"
    /\ last.wrote = <<1, 2>>
    /\ options.pingInterval # 0
    /\ conn[1].finished /\ conn[2].finished

\* C7: once close() was called, publish and subscribe are ineffective: a
\* publish returns no id and leaves nextID and history alone, a subscribe
\* adds no subscriber; so whenever active is false, subscribers and history
\* are empty.
C7_ClosedChannelIsIneffective ==
    ~active
        => /\ clients = <<>>
           /\ messages = <<>>
           /\ last.op = "publish" => last.ret = NoId

-----------------------------------------------------------------------------
(* Pings, the scenario of the specification, failing writes *)

\* C8: publish() without arguments assigns no id and leaves nextID and
\* history unchanged; without subscribers it writes nothing, otherwise it
\* writes one ping block to each subscriber.
C8_PingChangesNothing ==
    [][(PublishStep /\ last'.data = NoData /\ last'.eventName = Undefined)
          => /\ last'.ret = NoId
             /\ nextID' = nextID
             /\ messages' = messages
             /\ last'.wrote = clients]_vars

\* publish() on a channel with a full history and two subscribers
C8_Witness ==
    /\ last.op = "publish"
    /\ last.data = NoData /\ last.eventName = Undefined
    /\ last.wrote = <<1, 2>>
    /\ Len(messages) = 2
    /\ options.historySize = 2

\* C9: with historySize = 2 and startId = 1, three publishes that assign an
\* id return 1, 2, 3 and leave ids 2 and 3 in the history, and a client
\* subscribing next with Last-Event-ID = 1 is replayed ids 2, 3 in order.
C9_ThreePublishesThenResume ==
    (options.historySize = 2 /\ options.startId = 1 /\ active)
        => /\ (PublishDone /\ last.ret # NoId)
                  => (last.ret = nextID - 1 /\ last.ret \in 1..MaxPublish)
           /\ nextID = 4
                  => /\ idsOf(messages) = <<2, 3>>
                     /\ (last.op = "subscribe" /\ last.lastID = Num(1)
                            /\ ~conn[last.c].events.def)
                           => last.replay = <<2, 3>>

\* after the three publishes a client has resumed from id 1
C9_Witness ==
    /\ options.historySize = 2 /\ options.startId = 1 /\ active
    /\ nextID = 4
    /\ idsOf(messages) = <<2, 3>>
    /\ last.op = "subscribe"
    /\ last.lastID = Num(1)
    /\ ~conn[last.c].events.def
    /\ last.replay = <<2, 3>>

\* the subscribers a publish of eventName is meant for
meantFor(c, eventName) ==
    \/ ~NameTruthy(eventName)
    \/ ~conn[c].events.def
    \/ someEntryMatches(conn[c].events, eventName.v)

-----------------------------------------------------------------------------
(* Replay without a usable Last-Event-ID, and with one that is too high *)

\* the filter of the specification: an absent or empty filter matches every
\* name, another one the names one of its entries matches
filterMatches(events, name) ==
    \/ ~events.def
    \/ events.list = <<>>
    \/ someEntryMatches(events, name)

\* the last n elements of seq, all of it when it has fewer
lastN(seq, n) ==
    IF n <= 0 THEN <<>>
    ELSE SubSeq(seq, IF Len(seq) > n THEN Len(seq) - n + 1 ELSE 1, Len(seq))

\* the header is absent, empty, or does not begin with a number
notNumeric(h) == ~h.def \/ h.v = <<>> \/ ~IsDigit(Head(h.v))

\* C11: a subscribe whose Last-Event-ID is absent or not numeric is replayed
\* the configured default: nothing with rewind = 0, and with rewind = r > 0
\* the most recent r history entries that match its filter, in order.
C11_NoPriorIdFallsBackToRewind ==
    (last.op = "subscribe" /\ notNumeric(last.hdr))
        => last.replay =
              lastN(idsOf(SelectSeq(messages,
                      LAMBDA m : filterMatches(conn[last.c].events, m.eventName))),
                    options.rewind)

\* C12: a subscribe declaring a Last-Event-ID k with nextID - 1 - k <= 0 is
\* replayed no history entry.
C12_NothingNewerNothingReplayed ==
    (/\ last.op = "subscribe"
     /\ ~last.lastID.nan
     /\ nextID - 1 - last.lastID.n <= 0)
        => last.replay = <<>>

-----------------------------------------------------------------------------
(* The filter on the two paths *)

\* subscribe would replay m to a connection with the filter of c
replayEligible(c, m) == replayOf(<<m>>, conn[c].events, 1) # <<>>

\* publish would write a message named as m to c
fanOutEligible(c, m) == recipients(<<c>>, conn, Str(m.eventName)) # <<>>

\* C13: for every filter, absent, empty or not, and every message, named or
\* not, the message is eligible for replay to a connection iff live fan-out
\* would write it to that connection.
C13_SameFilterOnBothPaths ==
    \A i \in 1..Len(clients), j \in 1..Len(messages) :
        replayEligible(clients[i], messages[j])
            <=> fanOutEligible(clients[i], messages[j])

\* C14: a connection subscribed with an empty filter is written every named
\* message published while it is subscribed, like one with no filter.
C14_EmptyFilterMatchesAll ==
    (PublishDone /\ NameTruthy(last.eventName))
        => \A i \in 1..Len(clients) :
              conn[clients[i]].events \in {NoEvents, Events(<<>>)}
                  => InSeq(clients[i], last.wrote)

-----------------------------------------------------------------------------
(* The lifecycle hooks *)

\* C15: whenever the stream of a subscribed connection closes or fails, its
\* close hook eventually runs unsubscribe, so the connection is eventually
\* absent from the subscribers, and no connection whose stream has closed
\* stays registered.
C15_ClosedStreamsAreUnsubscribed ==
    \A c \in Conns :
        /\ CloseDue(c) ~> (conn[c].st = "closed" /\ ~InSeq(c, clients))
        /\ [](conn[c].st = "closed" => ~InSeq(c, clients))

\* the stream of 1 failed while it was subscribed; its close hook has run
\* and only 2 is left
C15_Witness ==
    /\ last.op = "closeHook"
    /\ last.c = 1
    /\ conn[1].st = "closed"
    /\ clients = <<2>>
    /\ conn[2].st = "aborted"

\* c's stream is ended in this step
EndedNow(c) == ~conn[c].finished /\ conn'[c].finished

-----------------------------------------------------------------------------
(* Timers *)

\* the one-shot timer of c was armed and has fired
TimerHasFired(c) ==
    conn[c].st # "none" /\ options.maxStreamDuration > 0 /\ ~conn[c].timer

\* C17: with maxStreamDuration > 0 every connection subscribe registers has
\* a one-shot timer, and once it has fired the connection is not in the
\* subscribers and its stream is ended; the callback does nothing when the
\* stream had finished before; with maxStreamDuration = 0 no timer exists
\* and none removes a connection.
C17_TimerForcesUnsubscribe ==
    /\ [](\A c \in Conns :
            /\ TimerHasFired(c) => (~InSeq(c, clients) /\ conn[c].finished)
            /\ options.maxStreamDuration = 0
                  => (~conn[c].timer /\ last.op # "timer"))
    /\ [][/\ last'.op = "subscribe"
                => conn'[last'.c].timer = (options.maxStreamDuration > 0)
          /\ last'.op = "timer"
                => /\ conn[last'.c].timer /\ ~conn'[last'.c].timer
                   /\ conn[last'.c].finished
                         => /\ clients' = clients
                            /\ conn' = [conn EXCEPT ![last'.c].timer = FALSE]
                            /\ messages' = messages /\ nextID' = nextID]_vars

\* the timer of 1 fired while its stream was open and removed it; 2 is
\* still subscribed with its timer armed
C17_Witness ==
    /\ last.op = "timer"
    /\ last.c = 1
    /\ conn[1].st = "open"
    /\ conn[1].finished
    /\ clients = <<2>>
    /\ conn[2].timer

\* C18: with pingInterval > 0 each keepalive tick before close() is a ping
\* publish: one ping block to every current subscriber, nextID and history
\* unchanged; after close() no tick fires, whoever subscribes later; with
\* pingInterval = 0 no tick ever occurs.
C18_TicksPingUntilClose ==
    /\ [](/\ pingTimer <=> (options.pingInterval > 0 /\ active)
          /\ last.op = "tick" => (active /\ options.pingInterval > 0))
    /\ [][last'.op = "tick"
            => /\ active /\ active'
               /\ last'.wrote = clients
               /\ last'.ret = NoId
               /\ nextID' = nextID
               /\ messages' = messages
               /\ clients' = clients]_vars

\* a tick has written a ping to two subscribers after a message was published
C18_Witness ==
    /\ last.op = "tick"
    /\ last.wrote = <<1, 2>>
    /\ nextID > options.startId

-----------------------------------------------------------------------------
(* Falsy payloads *)

\* C19: only a publish with both data and eventName absent is a ping: every
\* publish in which data is supplied, an empty string or 0 included, or a
\* name is supplied, returns a new id, adds one to nextID and appends one
\* entry with that id to the history before trimming.
C19_OnlyAbsentArgumentsArePing ==
    [][(last'.op = "publish"
          /\ (last'.data # NoData \/ last'.eventName # Undefined))
          => /\ last'.ret = nextID
             /\ nextID' = nextID + 1
             /\ options.historySize > 0
                   => /\ messages' # <<>>
                      /\ messages'[Len(messages')].id = nextID]_vars

-----------------------------------------------------------------------------
(* Order of the ids on one stream *)

StrictlyIncreasing(ids) == \A i, j \in 1..Len(ids) : i < j => ids[i] < ids[j]

\* C20: the ids of the messages written to the stream of one connection,
\* the replayed ones and then the live ones, are strictly increasing: the
\* replay is written before the connection is registered, in increasing
\* order, and every live message written to a connection has an id above
\* the one written to it last.
C20_IdsOnAStreamIncrease ==
    [][\A c \in Conns :
          /\ (last'.op = "subscribe" /\ last'.c = c)
                => /\ ~InSeq(c, clients)
                   /\ conn[c].lastId = NoId
                   /\ StrictlyIncreasing(last'.replay)
                   /\ \A i \in 1..Len(last'.replay) : last'.replay[i] < nextID
                   /\ last'.replay # <<>>
                         => conn'[c].lastId = last'.replay[Len(last'.replay)]
          /\ (PublishStep /\ last'.ret # NoId /\ InSeq(c, last'.wrote))
                => /\ InSeq(c, clients)
                   /\ last'.ret > conn[c].lastId
                   /\ conn'[c].lastId = last'.ret
          /\ (conn'[c].lastId # conn[c].lastId /\ conn'[c].lastId # NoId)
                => \/ last'.op = "subscribe" /\ last'.c = c
                   \/ PublishStep /\ InSeq(c, last'.wrote)]_vars

\* 1 was written the live message 3 last; 2 has subscribed after it and was
\* replayed 2 and 3
C20_Witness ==
    /\ last.op = "subscribe"
    /\ last.c = 2
    /\ last.replay = <<2, 3>>
    /\ conn[2].lastId = 3
    /\ clients = <<1, 2>>
    /\ conn[1].lastId = 3

====
